---- MODULE Spec2Model ----
(***************************************************************************)
(* s3report: one run of main() in s3report.go, sliced at its external      *)
(* calls (environment, flags, ListMetrics, GetMetricStatistics, DialTCP,   *)
(* WriteTo, Close).  Strings that are formatted or transformed are         *)
(* sequences of one-character strings; strings that are only compared are  *)
(* TLA+ strings.  A time.Time is [day, sod, nsec]: days since January 1,   *)
(* year 1 UTC, second of the day, nanosecond.  A float64 average is       *)
(* [kind, tenths]: a finite value in tenths (1234567 is 123456.7), or one  *)
(* of the values int64 cannot hold.  An int64 is [sat, n]: the number n,   *)
(* or the least or the greatest int64.                                     *)
(***************************************************************************)
EXTENDS Integers, Sequences, FiniteSets, TLC

VARIABLES
    accessKey, secretKey, awsRegion,  \* package variables, lines 43-47
    prefix, prev, tcpAddr,            \* flags -p, -1 and the resolution of -g
    metrics, idx,                     \* resp.Metrics and the range position
    buf,                              \* the bytes.Buffer of line 85
    clock,                            \* the wall clock time.Now() reads
    pc, exitCode,                     \* position in main and the exit status
    stderr, stdout,                   \* what log.* and fmt.Print* wrote
    listCalls, listErr,               \* ListMetrics calls, and whether it failed
    queries, outcome,                 \* GetMetricStatistics inputs; per descriptor result
    dials, conn, sent, writeErr       \* DialTCP calls, connection, bytes on the wire

vars == <<accessKey, secretKey, awsRegion, prefix, prev, tcpAddr, metrics, idx,
          buf, clock, pc, exitCode, stderr, stdout, listCalls, listErr,
          queries, outcome, dials, conn, sent, writeErr>>

----------------------------------------------------------------------------
(* Bounds of the model. *)

\* longest listing ListMetrics returns
MaxMetrics == 2

----------------------------------------------------------------------------
(* Strings *)

\* The alphabet of the strings that go through strings.ToLower: ASCII, Latin-1
\* and Greek.  UpperChars are its upper-case letters (U+0041-5A, U+00C0-DE
\* without the sign U+00D7, U+0391-A9) and LowerChars, at the same place, what
\* unicode.ToLower maps each to; OtherChars are its remaining characters, which
\* unicode.ToLower leaves as they are, as it leaves the letters of LowerChars.
UpperChars == <<"A","B","C","D","E","F","G","H","I","J","K","L","M",
                "N","O","P","Q","R","S","T","U","V","W","X","Y","Z",
                "À","Á","Â","Ã","Ä","Å","Æ","Ç","È","É","Ê","Ë","Ì",
                "Í","Î","Ï","Ð","Ñ","Ò","Ó","Ô","Õ","Ö","Ø","Ù","Ú",
                "Û","Ü","Ý","Þ","Α","Β","Γ","Δ","Ε","Ζ","Η","Θ","Ι",
                "Κ","Λ","Μ","Ν","Ξ","Ο","Π","Ρ","Σ","Τ","Υ","Φ","Χ",
                "Ψ","Ω">>
LowerChars == <<"a","b","c","d","e","f","g","h","i","j","k","l","m",
                "n","o","p","q","r","s","t","u","v","w","x","y","z",
                "à","á","â","ã","ä","å","æ","ç","è","é","ê","ë","ì",
                "í","î","ï","ð","ñ","ò","ó","ô","õ","ö","ø","ù","ú",
                "û","ü","ý","þ","α","β","γ","δ","ε","ζ","η","θ","ι",
                "κ","λ","μ","ν","ξ","ο","π","ρ","σ","τ","υ","φ","χ",
                "ψ","ω">>
OtherChars == <<"ß","ÿ","ς","0","1","2","3","4","5","6","7","8","9",
                "-","_",".","/"," ">>
DigitChars == <<"0","1","2","3","4","5","6","7","8","9">>

InSeq(c, chars) == \E i \in 1..Len(chars) : chars[i] = c

\* unicode.ToLower on a character of the alphabet; a character outside the
\* alphabet has no value here
LowerChar(c) ==
    CASE InSeq(c, UpperChars) ->
            LowerChars[CHOOSE i \in 1..Len(UpperChars) : UpperChars[i] = c]
      [] InSeq(c, LowerChars) \/ InSeq(c, OtherChars) -> c

\* strings.ToLower: every rune through unicode.ToLower
ToLower(s) == [i \in 1..Len(s) |-> LowerChar(s[i])]

RECURSIVE FormatNat(_)
FormatNat(n) ==
    IF n < 10 THEN <<DigitChars[n + 1]>>
    ELSE FormatNat(n \div 10) \o <<DigitChars[(n % 10) + 1]>>

\* the %d verb of fmt.Fprintf on a number
FormatInt(n) == IF n < 0 THEN <<"-">> \o FormatNat(-n) ELSE FormatNat(n)

\* float64 values: finite ones in tenths, and 1e19, -1e19, NaN, +Inf, -Inf
Fin(k) == [kind |-> "finite", tenths |-> k]
NotInt64(k) == [kind |-> k, tenths |-> 0]

\* int64 values
I64(n) == [sat |-> "no", n |-> n]
MinInt64 == [sat |-> "min", n |-> 0]
MaxInt64 == [sat |-> "max", n |-> 0]

\* the %d verb of fmt.Fprintf on an int64
FormatInt64(v) ==
    CASE v.sat = "min" -> <<"-","9","2","2","3","3","7","2","0","3","6",
                            "8","5","4","7","7","5","8","0","8">>
      [] v.sat = "max" -> <<"9","2","2","3","3","7","2","0","3","6",
                            "8","5","4","7","7","5","8","0","7">>
      [] OTHER -> FormatInt(v.n)

\* int64(f), the results a build can give: of a finite value in range, the value
\* without its fraction; of a value int64 cannot hold the result depends on the
\* implementation (the least int64 on amd64, the nearest int64 or 0 on arm64)
Int64OfFloat(f) ==
    CASE f.kind = "finite" ->
            {I64(IF f.tenths >= 0 THEN f.tenths \div 10 ELSE -((-f.tenths) \div 10))}
      [] f.kind \in {"1e19", "+Inf"} -> {MinInt64, MaxInt64}
      [] f.kind \in {"-1e19", "-Inf"} -> {MinInt64}
      [] OTHER -> {MinInt64, I64(0)}

----------------------------------------------------------------------------
(* time.Time *)

ZeroTime == [day |-> 0, sod |-> 0, nsec |-> 0]

\* Time.IsZero
IsZero(t) == t.day = 0 /\ t.sod = 0 /\ t.nsec = 0

\* Time.Unix: whole seconds since January 1, 1970 UTC (day 719162)
Unix(t) == (t.day - 719162) * 86400 + t.sod

\* t.Add(-24 * time.Hour)
AddMinus24h(t) == [t EXCEPT !.day = t.day - 1]

\* time.Date(y, m, d, t.Hour() + hh, mm, ss, 0, time.UTC): the hour of t kept
DateOfKeepsHour(t, hh, mm, ss) ==
    [day |-> t.day, sod |-> (t.sod \div 3600 + hh) * 3600 + mm * 60 + ss, nsec |-> 0]

\* time.Date(y, m, d, hh, mm, ss, 0, time.UTC) with (y, m, d) = t.Date()
DateOf(t, hh, mm, ss) == [day |-> t.day, sod |-> hh * 3600 + mm * 60 + ss, nsec |-> 0]

----------------------------------------------------------------------------
(* The loop body's pure parts, lines 88-113 and 132-190 *)

\* the last dimension named n decides, as the scan of lines 89-95 overwrites
HasDim(dims, n) == \E i \in 1..Len(dims) : dims[i].Name = n
LastDim(dims, n) ==
    dims[CHOOSE i \in 1..Len(dims) :
            /\ dims[i].Name = n
            /\ \A j \in 1..Len(dims) : dims[j].Name = n => j <= i]

\* name after the scan of lines 88-95
BucketNameOf(dims) ==
    IF HasDim(dims, "BucketName") THEN LastDim(dims, "BucketName").Value ELSE <<>>

\* stype after the scan of lines 88-95
StorageTypeOf(dims) ==
    IF HasDim(dims, "StorageType") THEN ToLower(LastDim(dims, "StorageType").Value)
    ELSE <<>>

\* the target instant of lines 133-136 and 157-160
TargetTime(now, pv) == IF pv THEN AddMinus24h(now) ELSE now

\* the request getBucketSize builds, lines 133-151
getBucketSize(dims, pv, now) ==
    [StartTime  |-> DateOf(TargetTime(now, pv), 0, 0, 0),
     EndTime    |-> DateOf(TargetTime(now, pv), 0, 1, 0),
     Period     |-> 60,
     MetricName |-> "BucketSizeBytes",
     Namespace  |-> "AWS/S3",
     Statistics |-> <<"Average">>,
     Dimensions |-> dims,
     Unit       |-> "Bytes"]

\* the request getBucketObjectCount builds, lines 157-175
getBucketObjectCount(dims, pv, now) ==
    [StartTime  |-> DateOf(TargetTime(now, pv), 0, 0, 0),
     EndTime    |-> DateOf(TargetTime(now, pv), 0, 1, 0),
     Period     |-> 60,
     MetricName |-> "NumberOfObjects",
     Namespace  |-> "AWS/S3",
     Statistics |-> <<"Average">>,
     Dimensions |-> dims,
     Unit       |-> "Count"]

\* what actualGet may return for a response without error, lines 185-189
actualGet(resp) ==
    IF Len(resp.Datapoints) = 0 THEN {[t |-> ZeroTime, v |-> I64(0)]}
    ELSE {[t |-> resp.Datapoints[1].Timestamp, v |-> v] :
             v \in Int64OfFloat(resp.Datapoints[1].Average)}

\* the format of line 102
SizeLine(p, name, stype, v, t) ==
    p \o name \o <<".">> \o stype \o <<".", "s", "i", "z", "e", " ">>
      \o FormatInt64(v) \o <<" ">> \o FormatInt(Unix(t)) \o <<"\n">>

\* the format of line 111
CountLine(p, name, v, t) ==
    p \o name \o <<".", "o", "b", "j", "c", "o", "u", "n", "t", " ">>
      \o FormatInt64(v) \o <<" ">> \o FormatInt(Unix(t)) \o <<"\n">>

\* the test of lines 99 and 108
NotAvailable(r) == IsZero(r.t)

\* line 116 with >= for >
BufNonEmptyOffByOne(b) == Len(b) >= 0

\* the test of line 116
BufNonEmpty(b) == Len(b) > 0

\* line 53 with && for ||
EnvUnsetAll(a, s, r) == Len(a) = 0 /\ Len(s) = 0 /\ Len(r) = 0

\* the test of line 53
EnvUnset(a, s, r) == Len(a) = 0 \/ Len(s) = 0 \/ Len(r) = 0

\* the default of line 58
prefixDefault(region) == <<"s", "3", ".">> \o region \o <<".">>

----------------------------------------------------------------------------
(* Inputs *)

KeySet == <<"A", "K">>
RegionSet == <<"u", "s", "-", "e", "a", "s", "t", "-", "1">>
EnvValues(v) == {<<>>, v}

PrefixFlags(region) == {prefixDefault(region), <<"p", ".">>}

Logs == <<"l", "o", "g", "s">>
Dim(n, v) == [Name |-> n, Value |-> v]

DescSizeStd ==
    [MetricName |-> "BucketSizeBytes",
     Dimensions |-> <<Dim("BucketName", Logs),
                      Dim("StorageType", <<"S","t","a","n","d","a","r","d",
                                           "S","t","o","r","a","g","e">>)>>]
DescCountAll ==
    [MetricName |-> "NumberOfObjects",
     Dimensions |-> <<Dim("StorageType", <<"A", "l", "l">>),
                      Dim("BucketName", Logs)>>]
DescSizeBare ==
    [MetricName |-> "BucketSizeBytes",
     Dimensions |-> <<Dim("BucketName", <<"B", "2">>)>>]
DescSizeGreek ==
    [MetricName |-> "BucketSizeBytes",
     Dimensions |-> <<Dim("StorageType", <<"É", "c", "o", "Ω", "2">>),
                      Dim("BucketName", <<"É", "b">>)>>]
DescOther ==
    [MetricName |-> "AllRequests",
     Dimensions |-> <<Dim("BucketName", Logs), Dim("FilterId", <<"f">>)>>]

Descs == {DescSizeStd, DescCountAll, DescSizeBare, DescSizeGreek, DescOther}

\* a listing names each metric once
Listings ==
    UNION {{l \in [1..n -> Descs] : \A i, j \in 1..n : l[i] = l[j] => i = j} :
             n \in 0..MaxMetrics}

ListResponses == {[err |-> TRUE, Metrics |-> <<>>]}
                    \cup {[err |-> FALSE, Metrics |-> l] : l \in Listings}

\* 2015-05-01T00:00:30Z, 1970-01-01T00:00:00Z, 1969-12-31T23:59:59.5Z
T2015 == [day |-> 735718, sod |-> 30, nsec |-> 0]
TEpoch == [day |-> 719162, sod |-> 0, nsec |-> 0]
TPre == [day |-> 719161, sod |-> 86399, nsec |-> 500000000]

Point(t, a) == [Timestamp |-> t, Average |-> a]

Datapoints == {Point(T2015, Fin(1234567)), Point(TEpoch, Fin(0)),
               Point(ZeroTime, Fin(420)), Point(T2015, NotInt64("1e19"))}

StatResponses ==
    {[err |-> TRUE, Datapoints |-> <<>>], [err |-> FALSE, Datapoints |-> <<>>],
     [err |-> FALSE, Datapoints |-> <<Point(TPre, Fin(-15)), Point(T2015, Fin(420))>>]}
      \cup {[err |-> FALSE, Datapoints |-> <<d>>] : d \in Datapoints}

\* the run starts at noon or one second before midnight of 2015-05-01
ClockStarts == {[day |-> 735718, sod |-> s, nsec |-> 0] : s \in {43200, 86399}}

\* time.Now() is the clock, which has moved on by 0 or 1 s since it was last read
After(t, s) ==
    IF t.sod + s >= 86400 THEN [t EXCEPT !.day = t.day + 1, !.sod = t.sod + s - 86400]
    ELSE [t EXCEPT !.sod = t.sod + s]
Nows(t) == {After(t, s) : s \in {0, 1}}

\* what the loop body did with one descriptor: no call, or a call, its response,
\* what actualGet returned and then "fatal", "warning" or "line"
NoCall == [called |-> FALSE]
Called(r, g, did) == [called |-> TRUE, resp |-> r, got |-> g, did |-> did]

----------------------------------------------------------------------------
(* main, lines 49-130 *)

Init ==
    /\ accessKey \in EnvValues(KeySet)
    /\ secretKey \in EnvValues(KeySet)
    /\ awsRegion \in EnvValues(RegionSet)
    /\ clock \in ClockStarts
    /\ prefix = <<>> /\ prev = FALSE /\ tcpAddr = "unset"
    /\ metrics = <<>> /\ idx = 0
    /\ buf = <<>>
    /\ pc = "env" /\ exitCode = -1
    /\ stderr = <<>> /\ stdout = <<>>
    /\ listCalls = 0 /\ listErr = FALSE
    /\ queries = <<>> /\ outcome = <<>>
    /\ dials = 0 /\ conn = "none" /\ sent = <<>> /\ writeErr = FALSE

\* log.Fatal: the message on standard error, then os.Exit(1)
Fatal(msg) ==
    /\ stderr' = Append(stderr, msg)
    /\ exitCode' = 1
    /\ pc' = "exit"

\* lines 52-55
CheckEnv ==
    /\ pc = "env"
    /\ IF EnvUnset(accessKey, secretKey, awsRegion)
       THEN Fatal("please set the environment variables")
       ELSE pc' = "flags" /\ UNCHANGED <<stderr, exitCode>>
    /\ UNCHANGED <<accessKey, secretKey, awsRegion, prefix, prev, tcpAddr, metrics,
                   idx, buf, clock, stdout, listCalls, listErr, queries, outcome,
                   dials, conn, sent, writeErr>>

\* flag.Parse on the command line, line 66: the flags are set, or the error
\* and the usage of lines 62-65 are printed and the process exits with status 2,
\* or -h prints the usage and exits with status 2 (Go before 1.15) or 0
FlagOutcomes == {"ok", "error", "help"}

\* lines 57-70: the flags are parsed and the -g address is resolved
ParseFlags ==
    /\ pc = "flags"
    /\ \E f \in FlagOutcomes :
          CASE f = "error" ->
                  /\ stderr' = stderr \o <<"flag error", "usage">>
                  /\ exitCode' = 2
                  /\ pc' = "exit"
                  /\ UNCHANGED <<prefix, prev, tcpAddr>>
            [] f = "help" ->
                  /\ stderr' = Append(stderr, "usage")
                  /\ exitCode' \in {0, 2}
                  /\ pc' = "exit"
                  /\ UNCHANGED <<prefix, prev, tcpAddr>>
            [] OTHER ->
                  \E p \in PrefixFlags(awsRegion), pv \in BOOLEAN, ok \in BOOLEAN :
                     /\ prefix' = p
                     /\ prev' = pv
                     /\ IF ok
                        THEN /\ tcpAddr' = "resolved"
                             /\ pc' = "list"
                             /\ UNCHANGED <<stderr, exitCode>>
                        ELSE /\ tcpAddr' = "error"
                             /\ Fatal("resolve error")
    /\ UNCHANGED <<accessKey, secretKey, awsRegion, metrics, idx, buf, clock,
                   stdout, listCalls, listErr, queries, outcome, dials, conn, sent,
                   writeErr>>

\* lines 72-85
ListMetrics ==
    /\ pc = "list"
    /\ listCalls' = listCalls + 1
    /\ \E r \in ListResponses :
          /\ listErr' = r.err
          /\ IF r.err
             THEN Fatal("list error") /\ UNCHANGED <<metrics, idx>>
             ELSE /\ metrics' = r.Metrics
                  /\ idx' = 1
                  /\ pc' = "loop"
                  /\ UNCHANGED <<stderr, exitCode>>
    /\ buf' = <<>>
    /\ UNCHANGED <<accessKey, secretKey, awsRegion, prefix, prev, tcpAddr, clock,
                   stdout, queries, outcome, dials, conn, sent, writeErr>>

\* line 183 with log.Print for log.Fatal: the error is logged and the empty
\* response is read
CollectErrorLogged(params, r, g, line, warning) ==
    /\ queries' = Append(queries, params)
    /\ idx' = idx + 1
    /\ pc' = "loop"
    /\ exitCode' = exitCode
    /\ IF r.err \/ NotAvailable(g)
       THEN /\ stderr' = Append(stderr, warning)
            /\ buf' = buf
            /\ outcome' = Append(outcome, Called(r, g, "warning"))
       ELSE /\ buf' = buf \o line
            /\ stderr' = stderr
            /\ outcome' = Append(outcome, Called(r, g, "line"))

\* one statistics call, with g what actualGet returns when the call succeeds,
\* and what the loop body does with it: lines 98-103, 107-112
Collect(params, r, g, line, warning) ==
    /\ queries' = Append(queries, params)
    /\ IF r.err
       THEN /\ Fatal("statistics error")
            /\ outcome' = Append(outcome, Called(r, g, "fatal"))
            /\ UNCHANGED <<idx, buf>>
       ELSE /\ idx' = idx + 1
            /\ pc' = "loop"
            /\ exitCode' = exitCode
            /\ IF NotAvailable(g)
               THEN /\ stderr' = Append(stderr, warning)
                    /\ buf' = buf
                    /\ outcome' = Append(outcome, Called(r, g, "warning"))
               ELSE /\ buf' = buf \o line
                    /\ stderr' = stderr
                    /\ outcome' = Append(outcome, Called(r, g, "line"))

\* lines 86-104, a descriptor named BucketSizeBytes
IterSize ==
    /\ pc = "loop" /\ idx <= Len(metrics)
    /\ metrics[idx].MetricName = "BucketSizeBytes"
    /\ \E now \in Nows(clock), r \in StatResponses :
          \E g \in actualGet(r) :
             /\ clock' = now
             /\ Collect(getBucketSize(metrics[idx].Dimensions, prev, now), r, g,
                        SizeLine(prefix, BucketNameOf(metrics[idx].Dimensions),
                                 StorageTypeOf(metrics[idx].Dimensions), g.v, g.t),
                        "bucket size not available")
    /\ UNCHANGED <<accessKey, secretKey, awsRegion, prefix, prev, tcpAddr, metrics,
                   stdout, listCalls, listErr, dials, conn, sent, writeErr>>

\* lines 86-95 and 105-113, a descriptor named NumberOfObjects
IterCount ==
    /\ pc = "loop" /\ idx <= Len(metrics)
    /\ metrics[idx].MetricName = "NumberOfObjects"
    /\ \E now \in Nows(clock), r \in StatResponses :
          \E g \in actualGet(r) :
             /\ clock' = now
             /\ Collect(getBucketObjectCount(metrics[idx].Dimensions, prev, now), r, g,
                        CountLine(prefix, BucketNameOf(metrics[idx].Dimensions),
                                  g.v, g.t),
                        "object count not available")
    /\ UNCHANGED <<accessKey, secretKey, awsRegion, prefix, prev, tcpAddr, metrics,
                   stdout, listCalls, listErr, dials, conn, sent, writeErr>>

\* lines 86-114, a descriptor of any other name: neither branch is taken
IterOther ==
    /\ pc = "loop" /\ idx <= Len(metrics)
    /\ metrics[idx].MetricName \notin {"BucketSizeBytes", "NumberOfObjects"}
    /\ idx' = idx + 1
    /\ outcome' = Append(outcome, NoCall)
    /\ UNCHANGED <<accessKey, secretKey, awsRegion, prefix, prev, tcpAddr, metrics,
                   buf, clock, pc, exitCode, stderr, stdout, listCalls, listErr,
                   queries, dials, conn, sent, writeErr>>

\* lines 116 and 126-130: nothing was collected, main returns
SendEmpty ==
    /\ pc = "loop" /\ idx > Len(metrics)
    /\ ~BufNonEmpty(buf)
    /\ stderr' = stderr \o <<"No metrics were found for today.",
                             "Try running it later in the day">>
    /\ exitCode' = 0
    /\ pc' = "exit"
    /\ UNCHANGED <<accessKey, secretKey, awsRegion, prefix, prev, tcpAddr, metrics,
                   idx, buf, clock, stdout, listCalls, listErr, queries, outcome,
                   dials, conn, sent, writeErr>>

\* lines 116-122: the lines are printed and the collector is dialled
DialTCP ==
    /\ pc = "loop" /\ idx > Len(metrics)
    /\ BufNonEmpty(buf)
    /\ stdout' = stdout \o <<[kind |-> "lines", text |-> buf], [kind |-> "sending"]>>
    /\ dials' = dials + 1
    /\ \E ok \in BOOLEAN :
          IF ok THEN conn' = "open" /\ pc' = "dialed" /\ UNCHANGED <<stderr, exitCode>>
          ELSE Fatal("dial error") /\ conn' = conn
    /\ UNCHANGED <<accessKey, secretKey, awsRegion, prefix, prev, tcpAddr, metrics,
                   idx, buf, clock, listCalls, listErr, queries, outcome, sent,
                   writeErr>>

\* how many bytes a write of b may put on the wire before it returns
WriteCuts(b) == {0, Len(b) \div 2, Len(b)}

\* line 123: buf.WriteTo(conn), both results dropped; the buffer keeps what
\* was not written
WriteTo ==
    /\ pc = "dialed"
    /\ \E n \in WriteCuts(buf) :
          /\ sent' = sent \o SubSeq(buf, 1, n)
          /\ buf' = SubSeq(buf, n + 1, Len(buf))
          /\ writeErr' = (n < Len(buf))
    /\ pc' = "written"
    /\ UNCHANGED <<accessKey, secretKey, awsRegion, prefix, prev, tcpAddr, metrics,
                   idx, clock, exitCode, stderr, stdout, listCalls, listErr,
                   queries, outcome, dials, conn>>

\* lines 124-130 without line 124
CloseSkipped ==
    /\ pc = "written"
    /\ stdout' = Append(stdout, [kind |-> "done"])
    /\ exitCode' = 0
    /\ pc' = "exit"
    /\ UNCHANGED <<accessKey, secretKey, awsRegion, prefix, prev, tcpAddr, metrics,
                   idx, buf, clock, stderr, listCalls, listErr, queries, outcome,
                   dials, conn, sent, writeErr>>

\* lines 124-130: the connection is closed, "done." is printed, main returns
CloseDone ==
    /\ pc = "written"
    /\ conn' = "closed"
    /\ stdout' = Append(stdout, [kind |-> "done"])
    /\ exitCode' = 0
    /\ pc' = "exit"
    /\ UNCHANGED <<accessKey, secretKey, awsRegion, prefix, prev, tcpAddr, metrics,
                   idx, buf, clock, stderr, listCalls, listErr, queries, outcome,
                   dials, sent, writeErr>>

Next ==
    \/ CheckEnv
    \/ ParseFlags
    \/ ListMetrics
    \/ IterSize
    \/ IterCount
    \/ IterOther
    \/ SendEmpty
    \/ DialTCP
    \/ WriteTo
    \/ CloseDone

Spec == Init /\ [][Next]_vars

----------------------------------------------------------------------------
(* Vocabulary of the properties *)

\* the range loop of lines 86-114 has run to its end
LoopDone == listCalls = 1 /\ ~listErr /\ idx > Len(metrics)

\* descriptors for which a line was written into the buffer
LineIdx == {i \in 1..Len(outcome) : outcome[i].called /\ outcome[i].did = "line"}
Produced == Cardinality(LineIdx)

\* descriptors whose statistics call returned an error
StatErrIdx == {i \in 1..Len(outcome) : outcome[i].called /\ outcome[i].resp.err}

CalledIdx == {i \in 1..Len(outcome) : outcome[i].called}

Logged(msg) == \E i \in 1..Len(stderr) : stderr[i] = msg
Printed(k) == \E i \in 1..Len(stdout) : stdout[i].kind = k

NoCollectorTraffic == dials = 0 /\ conn = "none" /\ sent = <<>>

----------------------------------------------------------------------------
(* C1: when the descriptor loop ends with no line produced, the buffer is   *)
(* empty, the collector is never dialled, and the run can only end with     *)
(* exit code 0 after logging that no metrics were found.                    *)
C1_EmptyRunSendsNothing ==
    (LoopDone /\ Produced = 0) =>
        /\ buf = <<>>
        /\ NoCollectorTraffic
        /\ pc \in {"loop", "exit"}
        /\ pc = "exit" =>
              /\ exitCode = 0
              /\ Logged("No metrics were found for today.")
              /\ ~Printed("done")

\* a run that queried a descriptor, got no datapoint, and ended
C1_Witness ==
    /\ LoopDone /\ Produced = 0 /\ pc = "exit"
    /\ Len(queries) >= 1
    /\ exitCode = 0

----------------------------------------------------------------------------
(* C3: once the listing call or a statistics call has returned an error the *)
(* run has ended with exit code 1, the collector was never dialled and      *)
(* nothing was sent, whatever the buffer holds; the failed call is the last *)
(* call made (one listing call, one statistics call per descriptor at most).*)
C3_ApiErrorAborts ==
    /\ listCalls <= 1
    /\ Len(queries) = Cardinality(CalledIdx)
    /\ Len(outcome) <= Len(metrics)
    /\ (listErr \/ StatErrIdx # {}) =>
          /\ pc = "exit" /\ exitCode = 1
          /\ NoCollectorTraffic
          /\ stdout = <<>>
          /\ listErr => queries = <<>>
          /\ StatErrIdx # {} => StatErrIdx = {Len(outcome)} /\ idx = Len(outcome)

\* a statistics error after a line for an earlier descriptor was buffered
C3_Witness ==
    /\ StatErrIdx # {}
    /\ Produced >= 1 /\ Len(buf) > 0
    /\ pc = "exit"

----------------------------------------------------------------------------
(* C9: with a required environment variable empty, or with a collector      *)
(* address that does not resolve, the run ends with exit code 1 and has     *)
(* made no listing call, no statistics call and no dial.                    *)
C9_ConfigErrorBeforeNetwork ==
    LET envBad == accessKey = <<>> \/ secretKey = <<>> \/ awsRegion = <<>>
        addrBad == tcpAddr = "error"
    IN  /\ envBad => pc \in {"env", "exit"}
        /\ addrBad => pc = "exit"
        /\ (envBad \/ addrBad) =>
              /\ listCalls = 0 /\ queries = <<>> /\ NoCollectorTraffic
              /\ pc = "exit" => exitCode = 1

\* a run that ended on the unresolved address, the environment being complete
C9_Witness ==
    /\ accessKey # <<>> /\ secretKey # <<>> /\ awsRegion # <<>>
    /\ tcpAddr = "error" /\ pc = "exit" /\ exitCode = 1

----------------------------------------------------------------------------
\* the buffer as lines 117 printed it, before the send
SendText == stdout[1].text

Newlines(t) == Cardinality({i \in 1..Len(t) : t[i] = "\n"})

DialFailed == Logged("dial error")

(* C2 as stated: a run that produced N >= 1 lines has, when it ends, opened *)
(* exactly one connection, written the whole buffer to it and closed it.    *)
C2_AsStated ==
    (LoopDone /\ Produced >= 1 /\ pc = "exit") =>
        /\ dials = 1
        /\ conn = "closed"
        /\ sent = SendText

(* C2 amended: a run that ends the loop with N >= 1 lines dials the         *)
(* collector exactly once, and only after every descriptor was processed.   *)
(* A failed dial ends the run with exit code 1 and nothing written.  After  *)
(* a successful dial the buffer is written once and the connection closed;  *)
(* what reached the connection is a prefix of the buffer with the rest left *)
(* in the buffer, and it is the whole buffer, N lines, exactly when the     *)
(* write reported no error.                                                 *)
C2_OneDialWriteClose ==
    /\ dials <= 1
    /\ (dials = 1 \/ conn # "none" \/ sent # <<>>) => LoopDone /\ Produced >= 1
    /\ (LoopDone /\ Produced >= 1 /\ pc # "loop") =>
          /\ dials = 1
          /\ Newlines(SendText) = Produced
          /\ sent \o buf = SendText
          /\ pc = "dialed" => conn = "open" /\ sent = <<>>
          /\ pc = "written" => conn = "open" /\ (writeErr <=> sent # SendText)
          /\ pc = "exit" =>
                \/ conn = "none" /\ DialFailed /\ exitCode = 1 /\ sent = <<>>
                \/ conn = "closed" /\ ~DialFailed /\ (writeErr <=> sent # SendText)

\* two lines were produced, sent whole on one connection, and it was closed
C2_Witness ==
    /\ LoopDone /\ Produced = 2 /\ pc = "exit"
    /\ dials = 1 /\ conn = "closed"
    /\ ~writeErr /\ sent = SendText /\ buf = <<>>

----------------------------------------------------------------------------
(* C4: a run whose dial failed or whose write to the connection failed      *)
(* (wholly or after part of the buffer) ends with a non-zero exit code and  *)
(* never prints "done.".                                                    *)
C4_SendErrorFatal ==
    (pc = "exit" /\ (DialFailed \/ writeErr)) =>
        /\ exitCode # 0
        /\ ~Printed("done")

----------------------------------------------------------------------------
(* C7: every statistics request asks for 00:00:00 to 00:01:00 UTC of the    *)
(* target day, the UTC date of the instant time.Now() returned, less one    *)
(* day when the previous-day flag is set, whatever the time of day; with    *)
(* period 60, statistic Average, and unit Bytes for BucketSizeBytes and     *)
(* Count for NumberOfObjects.                                               *)
C7_WindowOfTargetDay ==
    [][Len(queries') = Len(queries) + 1 =>
         LET q == queries'[Len(queries')]
             target == IF prev THEN clock'.day - 1 ELSE clock'.day
         IN  /\ q.StartTime = [day |-> target, sod |-> 0, nsec |-> 0]
             /\ q.EndTime = [day |-> target, sod |-> 60, nsec |-> 0]
             /\ q.Period = 60
             /\ q.Statistics = <<"Average">>
             /\ q.Namespace = "AWS/S3"
             /\ q.MetricName = metrics[idx].MetricName
             /\ q.Dimensions = metrics[idx].Dimensions
             /\ \/ q.MetricName = "BucketSizeBytes" /\ q.Unit = "Bytes"
                \/ q.MetricName = "NumberOfObjects" /\ q.Unit = "Count"]_vars

\* a size and a count request issued around noon with the previous-day flag set
C7_Witness ==
    /\ prev
    /\ clock.sod >= 43200 /\ clock.sod < 86399
    /\ \E i, j \in 1..Len(queries) :
          /\ queries[i].MetricName = "BucketSizeBytes"
          /\ queries[j].MetricName = "NumberOfObjects"
          /\ queries[i].StartTime.day = clock.day - 1
          /\ queries[j].EndTime.sod = 60

----------------------------------------------------------------------------
(* C10: all statistics requests of one run ask for the same window.         *)
C10_OneWindowPerRun ==
    \A i, j \in 1..Len(queries) :
        /\ queries[i].StartTime = queries[j].StartTime
        /\ queries[i].EndTime = queries[j].EndTime

----------------------------------------------------------------------------
(* The line the format rule gives for descriptor m, prefix p and datapoint  *)
(* d: the bucket and storage type are the values of the dimensions of those *)
(* names, empty when absent; the value is the average without its fraction. *)

DimValue(m, n) ==
    IF \E i \in 1..Len(m.Dimensions) : m.Dimensions[i].Name = n
    THEN (CHOOSE x \in {m.Dimensions[i] : i \in 1..Len(m.Dimensions)} : x.Name = n).Value
    ELSE <<>>

TowardZero(a) == IF a < 0 THEN -((-a) \div 10) ELSE a \div 10

\* the decimal numeral of the average without its fraction
Ten19 == <<"1","0","0","0","0","0","0","0","0","0",
           "0","0","0","0","0","0","0","0","0","0">>
TruncNumeral(a) ==
    CASE a.kind = "finite" -> FormatInt(TowardZero(a.tenths))
      [] a.kind = "1e19" -> Ten19
      [] a.kind = "-1e19" -> <<"-">> \o Ten19

\* the decimal numeral of the whole seconds from 1970-01-01T00:00:00Z to t,
\* computed in hundreds of seconds so that year 1 is within reach
TwoDigits(n) == <<DigitChars[(n \div 10) + 1], DigitChars[(n % 10) + 1]>>
Numeral(hi, lo) == IF hi = 0 THEN FormatNat(lo) ELSE FormatNat(hi) \o TwoDigits(lo)
UnixSeconds(t) ==
    LET d == t.day - 719162
        c == (t.sod + 99) \div 100
    IN  IF d >= 0 THEN Numeral(d * 864 + (t.sod \div 100), t.sod % 100)
        ELSE <<"-">> \o Numeral((-d) * 864 - c, c * 100 - t.sod)

\* the line with value numeral v and the time t
RuleLineWith(p, m, v, t) ==
    IF m.MetricName = "BucketSizeBytes"
    THEN p \o DimValue(m, "BucketName") \o <<".">>
           \o ToLower(DimValue(m, "StorageType")) \o <<".", "s", "i", "z", "e", " ">>
           \o v \o <<" ">> \o UnixSeconds(t) \o <<"\n">>
    ELSE p \o DimValue(m, "BucketName")
           \o <<".", "o", "b", "j", "c", "o", "u", "n", "t", " ">>
           \o v \o <<" ">> \o UnixSeconds(t) \o <<"\n">>

RuleLine(p, m, d) == RuleLineWith(p, m, TruncNumeral(d.Average), d.Timestamp)

IsSizeOrCount(m) == m.MetricName \in {"BucketSizeBytes", "NumberOfObjects"}

\* descriptor i was queried and the response held a datapoint
HasDatapoint(i) ==
    /\ outcome[i].called
    /\ ~outcome[i].resp.err
    /\ Len(outcome[i].resp.Datapoints) > 0

\* one line, of whatever value, for each size or count descriptor with a datapoint
RECURSIVE RuleBuffer(_)
RuleBuffer(n) ==
    IF n = 0 THEN <<>>
    ELSE RuleBuffer(n - 1) \o
           (IF IsSizeOrCount(metrics[n]) /\ HasDatapoint(n)
            THEN RuleLineWith(prefix, metrics[n], FormatInt64(outcome[n].got.v),
                              outcome[n].resp.Datapoints[1].Timestamp)
            ELSE <<>>)

----------------------------------------------------------------------------
(* C5: when the loop has ended the buffer is, in listing order, one line    *)
(* for each size or count descriptor whose response held a datapoint, and   *)
(* nothing else; descriptors of other kinds were not queried.               *)
C5_BufferIsLinesInListingOrder ==
    (LoopDone /\ pc = "loop") =>
        /\ Len(outcome) = Len(metrics)
        /\ \A i \in 1..Len(metrics) : outcome[i].called <=> IsSizeOrCount(metrics[i])
        /\ buf = RuleBuffer(Len(metrics))

----------------------------------------------------------------------------
(* C6: a queried descriptor is treated as not available (warning, no line,  *)
(* the loop goes on) exactly when its response holds no datapoint; a first  *)
(* datapoint, whatever its average and timestamp, yields a line.            *)
C6_UnavailableIffNoDatapoint ==
    \A i \in CalledIdx :
        ~outcome[i].resp.err =>
            /\ outcome[i].did = "warning" <=> Len(outcome[i].resp.Datapoints) = 0
            /\ outcome[i].did = "line" <=> Len(outcome[i].resp.Datapoints) > 0

----------------------------------------------------------------------------
(* C8: processing a descriptor whose response holds a datapoint appends to  *)
(* the buffer exactly the line of the format rule, its value the average    *)
(* without its fraction.                                                    *)
C8_LineFormat ==
    [][LET o == outcome'[Len(outcome')]
       IN  (/\ Len(outcome') = Len(outcome) + 1
            /\ o.called /\ ~o.resp.err /\ Len(o.resp.Datapoints) > 0)
              => buf' = buf \o RuleLine(prefix, metrics[idx], o.resp.Datapoints[1])]_vars

----------------------------------------------------------------------------
(* What holds of the lines in every run: the three statements above with    *)
(* "holds a datapoint" read as "holds a first datapoint whose timestamp is  *)
(* not the zero time", and with the value of an average that int64 cannot   *)
(* hold read as the least or the greatest int64.                            *)

Usable(resp) ==
    /\ ~resp.err
    /\ Len(resp.Datapoints) > 0
    /\ resp.Datapoints[1].Timestamp # ZeroTime

UsableLine(m, o) ==
    LET d == o.resp.Datapoints[1]
    IN  IF d.Average.kind = "finite" THEN RuleLine(prefix, m, d)
        ELSE RuleLineWith(prefix, m, FormatInt64(o.got.v), d.Timestamp)

RECURSIVE UsableBuffer(_)
UsableBuffer(n) ==
    IF n = 0 THEN <<>>
    ELSE UsableBuffer(n - 1) \o
           (IF outcome[n].called /\ Usable(outcome[n].resp)
            THEN UsableLine(metrics[n], outcome[n])
            ELSE <<>>)

LinesOfUsableDatapoints ==
    /\ Len(outcome) <= Len(metrics)
    /\ \A i \in 1..Len(outcome) :
          /\ outcome[i].called <=> IsSizeOrCount(metrics[i])
          /\ outcome[i].called =>
                /\ outcome[i].did = "line" <=> Usable(outcome[i].resp)
                /\ outcome[i].did = "warning" <=>
                      (~outcome[i].resp.err /\ ~Usable(outcome[i].resp))
                /\ (Usable(outcome[i].resp)
                      /\ outcome[i].resp.Datapoints[1].Average.kind # "finite")
                      => outcome[i].got.v \in {MinInt64, MaxInt64}
    /\ pc = "loop" => buf = UsableBuffer(Len(outcome))
    /\ Len(stdout) > 0 => SendText = UsableBuffer(Len(outcome))

====
